---- MODULE Spec2Model ----
(***************************************************************************)
(* Model of src/sections/layer_and_mask_information_section/               *)
(* layer_mask_data.rs: read_layer_mask_data and LayerMaskDataInner.        *)
(*                                                                         *)
(* Numbers wider than 16 bits are kept as two limbs [hi, lo] with          *)
(* value = hi * 65536 + lo, so that u32 / i32 arithmetic keeps its width:  *)
(*   u32   : hi \in 0..65535,        lo \in 0..65535                       *)
(*   i32   : hi \in -32768..32767,   lo \in 0..65535                       *)
(*   usize : hi \in Nat,             lo \in 0..65535  (cursor positions)   *)
(* An f64 is kept as its IEEE 754 fields: sign, exponent, fraction.        *)
(* Option<T> is a sequence: <<>> is None and <<x>> is Some(x).             *)
(***************************************************************************)
EXTENDS Integers, Sequences, FiniteSets, TLC

VARIABLES
    overflow_checks,        \* build: TRUE = arithmetic overflow panics, FALSE = it wraps
    buf_len,                \* number of bytes in the cursor's buffer (usize limbs)
    buf,                    \* the bytes of the buffer the decoder has read so far
    pos,                    \* cursor position (usize limbs)
    pc,                     \* position inside read_layer_mask_data
    layer_mask_data_len,    \* Option<u32>
    read_count,             \* u32, stays far below 65536
    first_mask,             \* Option<LayerMaskDataInner>
    second_mask,            \* Option<LayerMaskDataInner>
    parameter_flags,        \* Option<u8>
    raster_mask_density,
    raster_mask_feather,
    vector_mask_density,
    vector_mask_feather,
    status,                 \* "running", "ok" (returned Ok), "panic"; no statement returns Err
    panic_cause,            \* "none", "cursor" (read past the buffer), "overflow"
    result,                 \* Option<LayerMaskData>
    height_out,             \* Option<[status, value]>: outcome of the last height() call
    height_arg              \* Option<LayerMaskDataInner>: the record height() was called on

vars == <<overflow_checks, buf_len, buf, pos, pc, layer_mask_data_len, read_count,
          first_mask, second_mask, parameter_flags, raster_mask_density,
          raster_mask_feather, vector_mask_density, vector_mask_feather,
          status, panic_cause, result, height_out, height_arg>>

(***************************************************************************)
(* Bounds of the model.                                                    *)
(***************************************************************************)
\* declared lengths 0..MaxDeclaredLen are all tried
MaxDeclaredLen == 56
\* the huge buffer holds 2^32 + HugeTail bytes
HugeTail == 80

(***************************************************************************)
(* Program constants.                                                      *)
(***************************************************************************)
POSITION_RELATIVE_TO_LAYER == 1
LAYER_MASK_DISABLED == 2
INVERT_LAYER_MASK_WHEN_BLENDING == 4
USER_MASK_CAME_FROM_RENDERING_OTHER_DATA == 8
MASKS_HAVE_PARAMETERS_APPLIED == 16

USER_MASK_DENSITY == 1
USER_MASK_FEATHER == 2
VECTOR_MASK_DENSITY == 4
VECTOR_MASK_FEATHER == 8

\* declared lengths below this carry no record
MinRecordLen == 16
\* a second record is read when at least this many bytes remain
SecondRecordLen == 18
\* density a freshly decoded record is constructed with
DefaultDensity == 255

None == <<>>
Some(x) == <<x>>
IsSome(o) == o # <<>>
Unwrap(o) == o[1]

(***************************************************************************)
(* Limb arithmetic.                                                        *)
(***************************************************************************)
LimbBase == 65536
HalfLimb == 32768

FromNat(n) == [hi |-> n \div LimbBase, lo |-> n % LimbBase]
Zero == FromNat(0)

\* usize addition (64-bit: cannot overflow on the buffers modelled)
BigAdd(a, b) ==
    LET s == a.lo + b.lo
    IN  [hi |-> a.hi + b.hi + (s \div LimbBase), lo |-> s % LimbBase]

BigLE(a, b) == a.hi < b.hi \/ (a.hi = b.hi /\ a.lo <= b.lo)

\* exact difference a - b of two limb numbers (hi may leave the 16-bit range)
ExactSub(a, b) ==
    LET l == a.lo - b.lo
        borrow == IF l < 0 THEN 1 ELSE 0
    IN  [hi |-> a.hi - b.hi - borrow, lo |-> l % LimbBase]

\* u32 `a - b`: the result modulo 2^32 and whether it underflowed
U32Sub(a, b) ==
    LET d == ExactSub(a, b)
    IN  [overflow |-> d.hi < 0, val |-> [hi |-> d.hi % LimbBase, lo |-> d.lo]]

\* i32 `a - b`: the result modulo 2^32 (two's complement) and whether it overflowed
I32Sub(a, b) ==
    LET d == ExactSub(a, b)
    IN  [overflow |-> d.hi < -HalfLimb \/ d.hi >= HalfLimb,
         val |-> [hi |-> ((d.hi + HalfLimb) % LimbBase) - HalfLimb, lo |-> d.lo]]

(***************************************************************************)
(* The byte cursor (PsdCursor): sequential big-endian reads over a buffer  *)
(* of buf_len bytes; a read that asks for more bytes than remain fails.    *)
(***************************************************************************)
\* whether n (limbs) more bytes can be read at position p
CanRead(p, n) == BigLE(BigAdd(p, n), buf_len)

\* number of bytes a sequence of reads of the given sizes gets before one fails
RECURSIVE FitBytes(_, _)
FitBytes(sizes, p) ==
    IF sizes = <<>> THEN 0
    ELSE IF CanRead(p, FromNat(Head(sizes)))
         THEN Head(sizes) + FitBytes(Tail(sizes), BigAdd(p, FromNat(Head(sizes))))
         ELSE 0

RECURSIVE SumSeq(_)
SumSeq(sizes) == IF sizes = <<>> THEN 0 ELSE Head(sizes) + SumSeq(Tail(sizes))

\* read_u32: 4 bytes, big-endian
U32FromBytes(b) == [hi |-> b[1] * 256 + b[2], lo |-> b[3] * 256 + b[4]]

\* read_i32: 4 bytes, big-endian, two's complement
I32FromBytes(b) ==
    LET h == b[1] * 256 + b[2]
    IN  [hi |-> IF h >= HalfLimb THEN h - LimbBase ELSE h, lo |-> b[3] * 256 + b[4]]

\* read_f64: 8 bytes, big-endian IEEE 754 binary64: sign, biased exponent, fraction
F64FromBytes(b) ==
    [sign |-> b[1] \div 128,
     exponent |-> (b[1] % 128) * 16 + (b[2] \div 16),
     fraction |-> <<b[2] % 16, b[3], b[4], b[5], b[6], b[7], b[8]>>]

\* the literal 0.0
F64Zero == [sign |-> 0, exponent |-> 0, fraction |-> <<0, 0, 0, 0, 0, 0, 0>>]

(***************************************************************************)
(* LayerMaskDataInner                                                      *)
(***************************************************************************)
\* `flags & MASK != 0` for a one-bit mask
BitSet(flags, mask) == (flags \div mask) % 2 = 1

position_relative_to_layer(m) == BitSet(m.flags, POSITION_RELATIVE_TO_LAYER)
layer_mask_disabled(m) == BitSet(m.flags, LAYER_MASK_DISABLED)
invert_layer_mask_when_blending(m) == BitSet(m.flags, INVERT_LAYER_MASK_WHEN_BLENDING)
\* faulty variant: the predicate tests the neighbouring bit
user_mask_came_from_other_bit(m) == BitSet(m.flags, INVERT_LAYER_MASK_WHEN_BLENDING)

user_mask_came_from_rendering_other_data(m) ==
    BitSet(m.flags, USER_MASK_CAME_FROM_RENDERING_OTHER_DATA)
user_and_or_vector_masks_have_parameters_applied(m) ==
    BitSet(m.flags, MASKS_HAVE_PARAMETERS_APPLIED)

\* height(): `self.bottom - self.top` on i32
height(m) ==
    LET d == I32Sub(m.bottom, m.top)
    IN  IF d.overflow /\ overflow_checks
        THEN [status |-> "panic", value |-> Zero]
        ELSE [status |-> "ok", value |-> d.val]

(***************************************************************************)
(* Decoding of the two records and of the parameter block.                 *)
(***************************************************************************)
\* sizes of the reads of the first record: top, left, bottom, right, default_color, flags
FirstMaskSizes == <<4, 4, 4, 4, 1, 1>>

FirstMaskFromBytes(b) ==
    [top |-> I32FromBytes(SubSeq(b, 1, 4)),
     left |-> I32FromBytes(SubSeq(b, 5, 8)),
     bottom |-> I32FromBytes(SubSeq(b, 9, 12)),
     right |-> I32FromBytes(SubSeq(b, 13, 16)),
     default_color |-> b[17],
     flags |-> b[18],
     density |-> DefaultDensity,
     feather |-> F64Zero]

\* sizes of the reads of the second record: flags, default_color, top, left, bottom, right
SecondMaskSizes == <<1, 1, 4, 4, 4, 4>>

\* faulty variant: the second record decoded in the first record's field order
SecondMaskInFirstOrder(b) == FirstMaskFromBytes(b)

SecondMaskFromBytes(b) ==
    [top |-> I32FromBytes(SubSeq(b, 3, 6)),
     left |-> I32FromBytes(SubSeq(b, 7, 10)),
     bottom |-> I32FromBytes(SubSeq(b, 11, 14)),
     right |-> I32FromBytes(SubSeq(b, 15, 18)),
     default_color |-> b[2],
     flags |-> b[1],
     density |-> DefaultDensity,
     feather |-> F64Zero]

\* faulty variant: the length test off by one (`< 15`)
IsShortSectionOffByOne(len) == len.hi = 0 /\ len.lo < MinRecordLen - 1

\* the test `layer_mask_data_len < 16`
IsShortSection(len) == len.hi = 0 /\ len.lo < MinRecordLen

\* the test `layer_mask_data_len - read_count >= 18` on the wrapped difference
HasSecondMask(diff) == diff.hi > 0 \/ diff.lo >= SecondRecordLen

\* sizes of the reads of the parameter block, the flags byte first
ParameterSizes(pf) ==
    <<1>>
    \o (IF BitSet(pf, USER_MASK_DENSITY) THEN <<1>> ELSE <<>>)
    \o (IF BitSet(pf, USER_MASK_FEATHER) THEN <<8>> ELSE <<>>)
    \o (IF BitSet(pf, VECTOR_MASK_DENSITY) THEN <<1>> ELSE <<>>)
    \o (IF BitSet(pf, VECTOR_MASK_FEATHER) THEN <<8>> ELSE <<>>)

\* the bytes of a parameter block with flags pf holding the given field bytes
ParameterBytes(pf, rd, rf, vd, vf) ==
    <<pf>>
    \o (IF BitSet(pf, USER_MASK_DENSITY) THEN <<rd>> ELSE <<>>)
    \o (IF BitSet(pf, USER_MASK_FEATHER) THEN rf ELSE <<>>)
    \o (IF BitSet(pf, VECTOR_MASK_DENSITY) THEN <<vd>> ELSE <<>>)
    \o (IF BitSet(pf, VECTOR_MASK_FEATHER) THEN vf ELSE <<>>)

\* faulty variant: a field whose bit is clear keeps the record's 255 instead of 0
ParameterValuesDefault255(b) ==
    LET pf == b[1]
        o1 == 1
        o2 == o1 + (IF BitSet(pf, USER_MASK_DENSITY) THEN 1 ELSE 0)
        o3 == o2 + (IF BitSet(pf, USER_MASK_FEATHER) THEN 8 ELSE 0)
        o4 == o3 + (IF BitSet(pf, VECTOR_MASK_DENSITY) THEN 1 ELSE 0)
    IN  [raster_mask_density |-> IF BitSet(pf, USER_MASK_DENSITY) THEN b[o1 + 1]
                                 ELSE DefaultDensity,
         raster_mask_feather |-> IF BitSet(pf, USER_MASK_FEATHER)
                                 THEN F64FromBytes(SubSeq(b, o2 + 1, o2 + 8)) ELSE F64Zero,
         vector_mask_density |-> IF BitSet(pf, VECTOR_MASK_DENSITY) THEN b[o3 + 1]
                                 ELSE DefaultDensity,
         vector_mask_feather |-> IF BitSet(pf, VECTOR_MASK_FEATHER)
                                 THEN F64FromBytes(SubSeq(b, o4 + 1, o4 + 8)) ELSE F64Zero]

\* the four values the parameter block leaves, decoded from its bytes b (b[1] = flags)
ParameterValues(b) ==
    LET pf == b[1]
        o1 == 1
        o2 == o1 + (IF BitSet(pf, USER_MASK_DENSITY) THEN 1 ELSE 0)
        o3 == o2 + (IF BitSet(pf, USER_MASK_FEATHER) THEN 8 ELSE 0)
        o4 == o3 + (IF BitSet(pf, VECTOR_MASK_DENSITY) THEN 1 ELSE 0)
    IN  [raster_mask_density |-> IF BitSet(pf, USER_MASK_DENSITY) THEN b[o1 + 1] ELSE 0,
         raster_mask_feather |-> IF BitSet(pf, USER_MASK_FEATHER)
                                 THEN F64FromBytes(SubSeq(b, o2 + 1, o2 + 8)) ELSE F64Zero,
         vector_mask_density |-> IF BitSet(pf, VECTOR_MASK_DENSITY) THEN b[o3 + 1] ELSE 0,
         vector_mask_feather |-> IF BitSet(pf, VECTOR_MASK_FEATHER)
                                 THEN F64FromBytes(SubSeq(b, o4 + 1, o4 + 8)) ELSE F64Zero]

\* which descriptor each decoded record becomes
Classify(first, second) ==
    IF IsSome(second)
    THEN [vector_mask |-> Some(first), raster_mask |-> second]
    ELSE IF user_mask_came_from_rendering_other_data(first)
         THEN [vector_mask |-> Some(first), raster_mask |-> None]
         ELSE [vector_mask |-> None, raster_mask |-> Some(first)]

\* density and feather written into a present descriptor
Patch(o, density, feather) ==
    IF IsSome(o)
    THEN Some([Unwrap(o) EXCEPT !.density = density, !.feather = feather])
    ELSE None

BackPatch(d, rd, rf, vd, vf) ==
    [vector_mask |-> Patch(d.vector_mask, vd, vf),
     raster_mask |-> Patch(d.raster_mask, rd, rf)]

(***************************************************************************)
(* Inputs: the build, the buffer's length, and the bytes each read finds.  *)
(***************************************************************************)
\* the 4 bytes of the length prefix
LenWords ==
    { <<0, 0, 0, n>> : n \in 0..MaxDeclaredLen }
    \cup { <<0, 0, 1, 0>>, <<255, 255, 255, 255>> }

\* buffer lengths: truncated at every stage, complete, and larger than 2^32
BufLens ==
    { FromNat(n) : n \in {0, 2, 12, 22, 30, 45, 4 + MaxDeclaredLen} }
    \cup { [hi |-> LimbBase, lo |-> HugeTail] }

\* rectangles of the first record (top, left, bottom, right), 16 bytes each
Rects1 ==
    { <<0, 0, 1, 3,   0, 0, 0, 2,   0, 0, 0, 1,   0, 0, 2, 4>>,
      <<127, 255, 255, 255,   255, 255, 255, 254,   128, 0, 0, 0,   0, 1, 0, 0>> }

\* rectangles of the second record
Rects2 ==
    { <<255, 255, 255, 255,   0, 0, 0, 10,   0, 0, 0, 11,   128, 0, 0, 12>> }

Colors1 == {17}
Colors2 == {200}

\* flags of the first record: bits 3 and 4 in every combination, the other bits clear or set
Flags1 == {0, 8, 16, 24, 231, 255}
Flags2 == {0, 255}

\* parameter flags: bits 0..3 in every combination, and with the upper bits set
ParameterFlags == (0..15) \cup {243}

RasterDensities == {42}
VectorDensities == {128}
\* 1.5 and -2.0
RasterFeathers == { <<63, 248, 0, 0, 0, 0, 0, 0>> }
VectorFeathers == { <<192, 0, 0, 0, 0, 0, 0, 0>> }

(***************************************************************************)
(* read_layer_mask_data, one action per step of the function.              *)
(***************************************************************************)
Init ==
    /\ overflow_checks \in BOOLEAN
    /\ buf_len \in BufLens
    /\ buf = <<>>
    /\ pos = Zero
    /\ pc = "read_len"
    /\ layer_mask_data_len = None
    /\ read_count = 0
    /\ first_mask = None
    /\ second_mask = None
    /\ parameter_flags = None
    /\ raster_mask_density = 0
    /\ raster_mask_feather = F64Zero
    /\ vector_mask_density = 0
    /\ vector_mask_feather = F64Zero
    /\ status = "running"
    /\ panic_cause = "none"
    /\ result = None
    /\ height_out = None
    /\ height_arg = None

\* the cursor reads the bytes b with reads of the given sizes, as far as they fit
CursorRead(b, sizes) ==
    LET n == FitBytes(sizes, pos)
    IN  /\ buf' = buf \o SubSeq(b, 1, n)
        /\ pos' = BigAdd(pos, FromNat(n))

ReadFits(sizes) == FitBytes(sizes, pos) = SumSeq(sizes)

\* the function ends without a value: a read failed or an overflow check fired
Abort(cause) ==
    /\ pc' = "end"
    /\ status' = "panic"
    /\ panic_cause' = cause
    /\ result' = None

Continue(next) ==
    /\ pc' = next
    /\ UNCHANGED <<status, panic_cause, result>>

Return(value) ==
    /\ pc' = "end"
    /\ status' = "ok"
    /\ result' = Some(value)
    /\ UNCHANGED panic_cause

\* let layer_mask_data_len = cursor.read_u32();
ReadLen ==
    /\ pc = "read_len"
    /\ \E w \in LenWords :
        /\ CursorRead(w, <<4>>)
        /\ IF ReadFits(<<4>>)
           THEN /\ layer_mask_data_len' = Some(U32FromBytes(w))
                /\ Continue(IF IsShortSection(U32FromBytes(w)) THEN "short" ELSE "first")
           ELSE /\ Abort("cursor")
                /\ UNCHANGED layer_mask_data_len
    /\ UNCHANGED <<overflow_checks, buf_len, read_count, first_mask, second_mask,
                   parameter_flags, raster_mask_density, raster_mask_feather,
                   vector_mask_density, vector_mask_feather, height_out, height_arg>>

\* if layer_mask_data_len < 16 { cursor.read(layer_mask_data_len); return Ok(none, none) }
ShortSection ==
    /\ pc = "short"
    /\ LET len == Unwrap(layer_mask_data_len)
       IN  IF CanRead(pos, len)
           THEN /\ pos' = BigAdd(pos, len)
                /\ Return([vector_mask |-> None, raster_mask |-> None])
           ELSE /\ UNCHANGED pos
                /\ Abort("cursor")
    /\ UNCHANGED <<overflow_checks, buf_len, buf, layer_mask_data_len, read_count,
                   first_mask, second_mask, parameter_flags, raster_mask_density,
                   raster_mask_feather, vector_mask_density, vector_mask_feather,
                   height_out, height_arg>>

\* let first_mask = { top, left, bottom, right, default_color, flags }
ReadFirstMask ==
    /\ pc = "first"
    /\ \E r \in Rects1, c \in Colors1, f \in Flags1 :
        LET b == r \o <<c, f>>
        IN  /\ CursorRead(b, FirstMaskSizes)
            /\ IF ReadFits(FirstMaskSizes)
               THEN /\ first_mask' = Some(FirstMaskFromBytes(b))
                    /\ read_count' = read_count + SumSeq(FirstMaskSizes)
                    /\ Continue("second")
               ELSE /\ Abort("cursor")
                    /\ UNCHANGED <<first_mask, read_count>>
    /\ UNCHANGED <<overflow_checks, buf_len, layer_mask_data_len, second_mask,
                   parameter_flags, raster_mask_density, raster_mask_feather,
                   vector_mask_density, vector_mask_feather, height_out, height_arg>>

\* `layer_mask_data_len - read_count` as the build computes it
Remaining == U32Sub(Unwrap(layer_mask_data_len), FromNat(read_count))

\* `layer_mask_data_len - read_count >= 18` underflows in a build that checks overflow
SecondTestOverflows ==
    /\ pc = "second"
    /\ Remaining.overflow /\ overflow_checks
    /\ Abort("overflow")
    /\ UNCHANGED <<overflow_checks, buf_len, buf, pos, layer_mask_data_len, read_count,
                   first_mask, second_mask, parameter_flags, raster_mask_density,
                   raster_mask_feather, vector_mask_density, vector_mask_feather,
                   height_out, height_arg>>

\* let second_mask = if layer_mask_data_len - read_count >= 18 { Some(..) }
ReadSecondMask ==
    /\ pc = "second"
    /\ ~(Remaining.overflow /\ overflow_checks)
    /\ HasSecondMask(Remaining.val)
    /\ \E f \in Flags2, c \in Colors2, r \in Rects2 :
        LET b == <<f, c>> \o r
        IN  /\ CursorRead(b, SecondMaskSizes)
            /\ IF ReadFits(SecondMaskSizes)
               THEN /\ second_mask' = Some(SecondMaskFromBytes(b))
                    /\ read_count' = read_count + SumSeq(SecondMaskSizes)
                    /\ Continue("params")
               ELSE /\ Abort("cursor")
                    /\ UNCHANGED <<second_mask, read_count>>
    /\ UNCHANGED <<overflow_checks, buf_len, layer_mask_data_len, first_mask,
                   parameter_flags, raster_mask_density, raster_mask_feather,
                   vector_mask_density, vector_mask_feather, height_out, height_arg>>

\* ... else { None }
NoSecondMask ==
    /\ pc = "second"
    /\ ~(Remaining.overflow /\ overflow_checks)
    /\ ~HasSecondMask(Remaining.val)
    /\ Continue("params")
    /\ UNCHANGED <<overflow_checks, buf_len, buf, pos, layer_mask_data_len, read_count,
                   first_mask, second_mask, parameter_flags, raster_mask_density,
                   raster_mask_feather, vector_mask_density, vector_mask_feather,
                   height_out, height_arg>>

\* if first_mask.flags & MASKS_HAVE_PARAMETERS_APPLIED != 0 { parameter block }
ReadParameters ==
    /\ pc = "params"
    /\ BitSet(Unwrap(first_mask).flags, MASKS_HAVE_PARAMETERS_APPLIED)
    /\ \E pf \in ParameterFlags, rd \in RasterDensities, rf \in RasterFeathers,
          vd \in VectorDensities, vf \in VectorFeathers :
        LET b == ParameterBytes(pf, rd, rf, vd, vf)
            sizes == ParameterSizes(pf)
            v == ParameterValues(b)
        IN  /\ CursorRead(b, sizes)
            /\ IF ReadFits(sizes)
               THEN /\ parameter_flags' = Some(pf)
                    /\ raster_mask_density' = v.raster_mask_density
                    /\ raster_mask_feather' = v.raster_mask_feather
                    /\ vector_mask_density' = v.vector_mask_density
                    /\ vector_mask_feather' = v.vector_mask_feather
                    /\ read_count' = read_count + SumSeq(sizes)
                    /\ Continue("skip")
               ELSE /\ Abort("cursor")
                    /\ UNCHANGED <<parameter_flags, raster_mask_density,
                                   raster_mask_feather, vector_mask_density,
                                   vector_mask_feather, read_count>>
    /\ UNCHANGED <<overflow_checks, buf_len, layer_mask_data_len, first_mask,
                   second_mask, height_out, height_arg>>

NoParameters ==
    /\ pc = "params"
    /\ ~BitSet(Unwrap(first_mask).flags, MASKS_HAVE_PARAMETERS_APPLIED)
    /\ Continue("skip")
    /\ UNCHANGED <<overflow_checks, buf_len, buf, pos, layer_mask_data_len, read_count,
                   first_mask, second_mask, parameter_flags, raster_mask_density,
                   raster_mask_feather, vector_mask_density, vector_mask_feather,
                   height_out, height_arg>>

\* `layer_mask_data_len - read_count` of the final skip underflows, overflow checked
SkipOverflows ==
    /\ pc = "skip"
    /\ Remaining.overflow /\ overflow_checks
    /\ Abort("overflow")
    /\ UNCHANGED <<overflow_checks, buf_len, buf, pos, layer_mask_data_len, read_count,
                   first_mask, second_mask, parameter_flags, raster_mask_density,
                   raster_mask_feather, vector_mask_density, vector_mask_feather,
                   height_out, height_arg>>

\* cursor.read(layer_mask_data_len - read_count); classify; back-patch; Ok(..)
SkipAndReturn ==
    /\ pc = "skip"
    /\ ~(Remaining.overflow /\ overflow_checks)
    /\ IF CanRead(pos, Remaining.val)
       THEN /\ pos' = BigAdd(pos, Remaining.val)
            /\ Return(BackPatch(Classify(Unwrap(first_mask), second_mask),
                                raster_mask_density, raster_mask_feather,
                                vector_mask_density, vector_mask_feather))
       ELSE /\ UNCHANGED pos
            /\ Abort("cursor")
    /\ UNCHANGED <<overflow_checks, buf_len, buf, layer_mask_data_len, read_count,
                   first_mask, second_mask, parameter_flags, raster_mask_density,
                   raster_mask_feather, vector_mask_density, vector_mask_feather,
                   height_out, height_arg>>

\* a caller asks a returned descriptor for its height()
Height ==
    /\ pc = "end"
    /\ status = "ok"
    /\ \E o \in {Unwrap(result).vector_mask, Unwrap(result).raster_mask} :
        /\ IsSome(o)
        /\ height_arg' = o
        /\ height_out' = Some(height(Unwrap(o)))
    /\ pc' = "height"
    /\ UNCHANGED <<overflow_checks, buf_len, buf, pos, layer_mask_data_len, read_count,
                   first_mask, second_mask, parameter_flags, raster_mask_density,
                   raster_mask_feather, vector_mask_density, vector_mask_feather,
                   status, panic_cause, result>>

Next ==
    \/ ReadLen
    \/ ShortSection
    \/ ReadFirstMask
    \/ SecondTestOverflows
    \/ ReadSecondMask
    \/ NoSecondMask
    \/ ReadParameters
    \/ NoParameters
    \/ SkipOverflows
    \/ SkipAndReturn
    \/ Height

Spec == Init /\ [][Next]_vars

(***************************************************************************)
(* Properties.                                                             *)
(***************************************************************************)
\* the declared length, once read
DeclaredLen == Unwrap(layer_mask_data_len)
\* the declared length is below n (n < 65536)
DeclaredBelow(n) == DeclaredLen.hi = 0 /\ DeclaredLen.lo < n
\* bit k of the byte x
Bit(x, k) == (x \div (2 ^ k)) % 2
\* the descriptors the returned value holds
Descriptors == {Unwrap(result).vector_mask, Unwrap(result).raster_mask} \ {None}
\* the function went through the second-record step without ending
PastSecondStep == pc \in {"params", "skip"} \/ (status = "ok" /\ IsSome(first_mask))
\* bytes taken by the second record
SecondBytes == IF IsSome(second_mask) THEN 18 ELSE 0
\* the fields of a record that come from its 18 bytes
SameRecord(a, b) ==
    /\ a.top = b.top /\ a.left = b.left /\ a.bottom = b.bottom /\ a.right = b.right
    /\ a.default_color = b.default_color /\ a.flags = b.flags
\* the signed 32-bit big-endian number at section offset off of the buffer
I32At(off) == I32FromBytes(SubSeq(buf, off + 1, off + 4))
F64At(off) == F64FromBytes(SubSeq(buf, off + 1, off + 8))

\* C1: whenever read_layer_mask_data returns a result, the cursor stands exactly
\* declared_len bytes after the 4-byte length prefix.
C1_ConsumesDeclaredLen ==
    status = "ok" => pos = BigAdd(FromNat(4), DeclaredLen)

\* C2: when bit 4 of record 1's flags is clear, every descriptor of the returned
\* result has density 255 and feather 0.0.
C2_DefaultsWithoutParameters ==
    (status = "ok" /\ IsSome(first_mask) /\ Bit(Unwrap(first_mask).flags, 4) = 0)
        => \A d \in Descriptors : Unwrap(d).density = 255 /\ Unwrap(d).feather = F64Zero

\* C3: a read or skip past the end of the buffer ends the function with the decode
\* error and no output; a returned result is built only from bytes of the buffer.
C3_TruncationIsDecodeError ==
    /\ panic_cause = "cursor" => (status = "err" /\ result = None)
    /\ status = "ok" => BigLE(pos, buf_len)

\* C4: for declared_len < 16 the function decodes no record, and when it returns it
\* has skipped exactly declared_len bytes and both descriptors are absent; it
\* returns whenever the buffer holds those bytes.
C4_ShortSectionSkipped ==
    (pc = "end" /\ IsSome(layer_mask_data_len) /\ DeclaredBelow(16))
        => /\ first_mask = None /\ second_mask = None
           /\ Len(buf) = 4
           /\ status = "ok" <=> BigLE(BigAdd(FromNat(4), DeclaredLen), buf_len)
           /\ status = "ok" =>
                /\ pos = BigAdd(FromNat(4), DeclaredLen)
                /\ result = Some([vector_mask |-> None, raster_mask |-> None])

C4_Witness ==
    /\ status = "ok" /\ DeclaredLen = FromNat(15) /\ pos = FromNat(19)
    /\ result = Some([vector_mask |-> None, raster_mask |-> None])

\* C5: a second record is decoded exactly when declared_len - 18 >= 18, and then
\* the result holds record 1 as vector_mask and record 2 as raster_mask.
C5_SecondRecordRule ==
    /\ PastSecondStep => (IsSome(second_mask) <=> ~DeclaredBelow(36))
    /\ (status = "ok" /\ IsSome(second_mask)) =>
            /\ IsSome(Unwrap(result).vector_mask)
            /\ IsSome(Unwrap(result).raster_mask)
            /\ SameRecord(Unwrap(Unwrap(result).vector_mask), Unwrap(first_mask))
            /\ SameRecord(Unwrap(Unwrap(result).raster_mask), Unwrap(second_mask))

C7_ParameterBlock ==
    /\ (pc = "skip" \/ (status = "ok" /\ IsSome(first_mask)))
            => (IsSome(parameter_flags) <=> Bit(Unwrap(first_mask).flags, 4) = 1)
    /\ IsSome(parameter_flags) =>
         LET pf == Unwrap(parameter_flags)
             base == 4 + 18 + SecondBytes
             ord == base + 1
             orf == ord + Bit(pf, 0)
             ovd == orf + 8 * Bit(pf, 1)
             ovf == ovd + Bit(pf, 2)
             end == ovf + 8 * Bit(pf, 3)
             rd == IF Bit(pf, 0) = 1 THEN buf[ord + 1] ELSE 0
             rf == IF Bit(pf, 1) = 1 THEN F64At(orf) ELSE F64Zero
             vd == IF Bit(pf, 2) = 1 THEN buf[ovd + 1] ELSE 0
             vf == IF Bit(pf, 3) = 1 THEN F64At(ovf) ELSE F64Zero
         IN  /\ buf[base + 1] = pf
             /\ Len(buf) = end
             /\ read_count = end - 4
             /\ raster_mask_density = rd /\ raster_mask_feather = rf
             /\ vector_mask_density = vd /\ vector_mask_feather = vf
             /\ status = "ok" =>
                  /\ IsSome(Unwrap(result).raster_mask) =>
                        /\ Unwrap(Unwrap(result).raster_mask).density = rd
                        /\ Unwrap(Unwrap(result).raster_mask).feather = rf
                  /\ IsSome(Unwrap(result).vector_mask) =>
                        /\ Unwrap(Unwrap(result).vector_mask).density = vd
                        /\ Unwrap(Unwrap(result).vector_mask).feather = vf

C7_Witness ==
    /\ status = "ok" /\ parameter_flags = Some(3) /\ IsSome(second_mask)
    /\ read_count = 18 + 18 + 10
    /\ Unwrap(Unwrap(result).raster_mask).density = 42
    /\ Unwrap(Unwrap(result).raster_mask).feather
         = [sign |-> 0, exponent |-> 1023, fraction |-> <<8, 0, 0, 0, 0, 0, 0>>]
    /\ Unwrap(Unwrap(result).vector_mask).density = 0
    /\ Unwrap(Unwrap(result).vector_mask).feather = F64Zero

\* C8: height() returns the exact difference bottom - top for all 32-bit top and
\* bottom; it never wraps or traps.
C8_HeightExact ==
    IsSome(height_out) =>
        /\ Unwrap(height_out).status = "ok"
        /\ Unwrap(height_out).value
             = ExactSub(Unwrap(height_arg).bottom, Unwrap(height_arg).top)

\* C9: record 1 is read as top, left, bottom, right at offsets 4..20, default_color
\* at 20, flags at 21; record 2 as flags at 22, default_color at 23, top, left,
\* bottom, right at 24..40; the parameter flags byte comes after both records and
\* is read exactly when bit 4 of record 1's flags is set, whatever record 2 holds.
C9_FieldOrder ==
    /\ IsSome(first_mask) =>
         LET m == Unwrap(first_mask)
         IN  /\ m.top = I32At(4) /\ m.left = I32At(8)
             /\ m.bottom = I32At(12) /\ m.right = I32At(16)
             /\ m.default_color = buf[20 + 1] /\ m.flags = buf[21 + 1]
    /\ IsSome(second_mask) =>
         LET m == Unwrap(second_mask)
         IN  /\ m.flags = buf[22 + 1] /\ m.default_color = buf[23 + 1]
             /\ m.top = I32At(24) /\ m.left = I32At(28)
             /\ m.bottom = I32At(32) /\ m.right = I32At(36)
    /\ IsSome(parameter_flags) =>
         /\ Unwrap(parameter_flags) = buf[4 + 18 + SecondBytes + 1]
    /\ pc = "skip" =>
         /\ IsSome(parameter_flags) <=> Bit(buf[21 + 1], 4) = 1
         /\ LET pf == IF IsSome(parameter_flags) THEN Unwrap(parameter_flags) ELSE 0
                block == IF IsSome(parameter_flags)
                         THEN 1 + Bit(pf, 0) + 8 * Bit(pf, 1) + Bit(pf, 2) + 8 * Bit(pf, 3)
                         ELSE 0
            IN  read_count = 18 + SecondBytes + block

C9_Witness ==
    /\ status = "ok" /\ IsSome(second_mask) /\ parameter_flags = Some(15)
    /\ Unwrap(second_mask).flags = 255 /\ Unwrap(second_mask).default_color = 200
    /\ Unwrap(second_mask).top = [hi |-> -1, lo |-> 65535]
    /\ Unwrap(first_mask).bottom = [hi |-> 0, lo |-> 1]
    /\ Len(buf) = 4 + 18 + 18 + 19

\* C10: at both places where declared_len - consumed is computed, consumed is at
\* most declared_len, so the unsigned subtraction does not underflow.
C10_NoUnderflow ==
    pc \in {"second", "skip"} => BigLE(FromNat(read_count), DeclaredLen)

====
